---------------------------- MODULE Spec2Model ----------------------------
(***************************************************************************)
(* Timed auctions of FC-Action: AuctionRepository.CreateAuction stores an  *)
(* auction and spawns one goroutine that waits out the configured duration *)
(* and then closes the auction with a conditional FindOneAndUpdate.        *)
(*                                                                         *)
(* Time is counted in ticks, TicksPerSecond of them to a second, so that   *)
(* the truncation of time.Time to Unix seconds is visible.  A duration is  *)
(* a time.Duration: a signed 64-bit count of nanoseconds, kept here as a   *)
(* sign and a sequence of decimal digits because it does not fit the       *)
(* integers of the model checker.                                          *)
(***************************************************************************)
EXTENDS Integers, Sequences, FiniteSets, TLC

(***************************************************************************)
(* Bounds of the model.                                                    *)
(***************************************************************************)
MaxEnvLen == 3
MaxTime == 6
MaxAuctions == 2
MaxBids == 1
MaxRestarts == 1
MaxAttempts == 3
MaxSlack == 1
MaxFound == 3

TicksPerSecond == 2

(***************************************************************************)
(* Program constants.                                                      *)
(***************************************************************************)
Active == 0
Finished == 1
DefaultSeconds == 600
UpdateTimeoutSeconds == 10

(***************************************************************************)
(* Natural numbers beyond the checker's integers: big-endian sequences of  *)
(* decimal digits without leading zeros (zero is the empty sequence).      *)
(***************************************************************************)
RECURSIVE StripZeros(_)
StripZeros(d) ==
    IF d = <<>> \/ d[1] # 0 THEN d ELSE StripZeros(Tail(d))

RECURSIVE Reverse(_)
Reverse(s) ==
    IF s = <<>> THEN <<>> ELSE Append(Reverse(Tail(s)), s[1])

RECURSIVE LexCmp(_, _)
LexCmp(a, b) ==
    IF a = <<>> THEN 0
    ELSE IF a[1] < b[1] THEN -1
    ELSE IF a[1] > b[1] THEN 1
    ELSE LexCmp(Tail(a), Tail(b))

\* -1, 0 or 1 as a < b, a = b or a > b.
NatCmp(a, b) ==
    IF Len(a) < Len(b) THEN -1
    ELSE IF Len(a) > Len(b) THEN 1
    ELSE LexCmp(a, b)

\* Little-endian addition with carry.
RECURSIVE AddLE(_, _, _)
AddLE(a, b, carry) ==
    IF a = <<>> /\ b = <<>>
    THEN IF carry = 0 THEN <<>> ELSE <<carry>>
    ELSE LET x == IF a = <<>> THEN 0 ELSE a[1]
             y == IF b = <<>> THEN 0 ELSE b[1]
             s == x + y + carry
             ta == IF a = <<>> THEN <<>> ELSE Tail(a)
             tb == IF b = <<>> THEN <<>> ELSE Tail(b)
         IN  <<s % 10>> \o AddLE(ta, tb, s \div 10)

NatAdd(a, b) == StripZeros(Reverse(AddLE(Reverse(a), Reverse(b), 0)))

\* Little-endian subtraction with borrow, for a >= b.
RECURSIVE SubLE(_, _, _)
SubLE(a, b, borrow) ==
    IF a = <<>> THEN <<>>
    ELSE LET y == IF b = <<>> THEN 0 ELSE b[1]
             tb == IF b = <<>> THEN <<>> ELSE Tail(b)
             x == a[1] - y - borrow
         IN  IF x < 0 THEN <<x + 10>> \o SubLE(Tail(a), tb, 1)
             ELSE <<x>> \o SubLE(Tail(a), tb, 0)

NatSub(a, b) == StripZeros(Reverse(SubLE(Reverse(a), Reverse(b), 0)))

\* x mod m: x mod 2m, less m at most once.
RECURSIVE NatMod(_, _)
NatMod(x, m) ==
    IF NatCmp(x, m) < 0 THEN x
    ELSE LET r == NatMod(x, NatAdd(m, m))
         IN  IF NatCmp(r, m) >= 0 THEN NatSub(r, m) ELSE r

RECURSIVE NatOfInt(_)
NatOfInt(n) ==
    IF n = 0 THEN <<>> ELSE Append(NatOfInt(n \div 10), n % 10)

RECURSIVE IntOfNat(_)
IntOfNat(d) ==
    IF d = <<>> THEN 0 ELSE 10 * IntOfNat(SubSeq(d, 1, Len(d) - 1)) + d[Len(d)]

\* 2^63 and 2^64: the range of int and of time.Duration (int64).
Two63 == <<9,2,2,3,3,7,2,0,3,6,8,5,4,7,7,5,8,0,8>>
Two64 == NatAdd(Two63, Two63)

\* The two's complement int64 holding the low 64 bits of a natural number.
WrapInt64(x) ==
    LET r == NatMod(x, Two64)
    IN  IF NatCmp(r, Two63) >= 0
        THEN [neg |-> TRUE, mag |-> NatSub(Two64, r)]
        ELSE [neg |-> FALSE, mag |-> r]


\* a * d for one decimal digit d, little-endian with carry.
RECURSIVE MulDigitLE(_, _, _)
MulDigitLE(a, d, carry) ==
    IF a = <<>>
    THEN IF carry = 0 THEN <<>> ELSE <<carry>>
    ELSE LET p == a[1] * d + carry
         IN  <<p % 10>> \o MulDigitLE(Tail(a), d, p \div 10)

NatMulDigit(a, d) == StripZeros(Reverse(MulDigitLE(Reverse(a), d, 0)))

RECURSIVE NatMul(_, _)
NatMul(a, b) ==
    IF a = <<>> \/ b = <<>> THEN <<>>
    ELSE NatAdd(NatMul(a, SubSeq(b, 1, Len(b) - 1)) \o <<0>>,
                NatMulDigit(a, b[Len(b)]))

(***************************************************************************)
(* The environment value AUCTION_DURATION_SECONDS is a sequence of         *)
(* characters; strconv.Atoi parses it.                                     *)
(***************************************************************************)
DigitChars == {"0", "1", "2", "3", "4", "5", "6", "7", "8", "9"}

DigitVal(c) ==
    CASE c = "0" -> 0 [] c = "1" -> 1 [] c = "2" -> 2 [] c = "3" -> 3
      [] c = "4" -> 4 [] c = "5" -> 5 [] c = "6" -> 6 [] c = "7" -> 7
      [] c = "8" -> 8 [] c = "9" -> 9

DigitsOf(s) == [i \in 1..Len(s) |-> DigitVal(s[i])]

AllDigits(s) == \A i \in 1..Len(s) : s[i] \in DigitChars

\* strconv.Atoi with a 64-bit int: an optional sign and decimal digits; a
\* syntax error for anything else, a range error outside [-2^63, 2^63 - 1].
Atoi(s) ==
    LET signed == s # <<>> /\ s[1] \in {"+", "-"}
        body == IF signed THEN Tail(s) ELSE s
        minus == signed /\ s[1] = "-"
        mag == StripZeros(DigitsOf(body))
    IN  IF body = <<>> \/ ~AllDigits(body)
        THEN [err |-> "syntax", neg |-> FALSE, mag |-> <<>>]
        ELSE IF (~minus /\ NatCmp(mag, Two63) >= 0)
                \/ (minus /\ NatCmp(mag, Two63) > 0)
        THEN [err |-> "range", neg |-> FALSE, mag |-> <<>>]
        ELSE [err |-> "nil", neg |-> minus /\ mag # <<>>, mag |-> mag]

\* time.Second, in nanoseconds.
Second == NatOfInt(1000000000)

\* time.Duration(secs) * time.Second for secs >= 0: an int64 product, which wraps.
DurationOfSeconds(secs) == WrapInt64(NatMul(secs, Second))

DefaultDuration == DurationOfSeconds(NatOfInt(DefaultSeconds))

getAuctionDuration(v) ==
    IF v = <<>>
    THEN DefaultDuration
    ELSE LET r == Atoi(v)
         IN  IF r.err # "nil" \/ r.neg \/ r.mag = <<>>
             THEN DefaultDuration
             ELSE DurationOfSeconds(r.mag)

(***************************************************************************)
(* Durations in ticks, for the clock of the model.  A negative duration is *)
(* below every elapsed time; a duration of a million seconds or more is    *)
(* beyond every instant the model reaches.                                 *)
(***************************************************************************)
DurationTicks(d) ==
    IF d.neg THEN -1
    ELSE IF Len(d.mag) <= 9 THEN 0
    ELSE IF Len(d.mag) > 15 THEN 1000000 * TicksPerSecond
    ELSE IntOfNat(SubSeq(d.mag, 1, Len(d.mag) - 9)) * TicksPerSecond

\* time.Time.Unix: whole seconds, the sub-second part dropped.
Unix(t) == t \div TicksPerSecond

\* time.Unix(sec, 0)
TimeOfUnix(sec) == sec * TicksPerSecond


(***************************************************************************)
(* State.                                                                  *)
(*   now      the clock, in ticks                                          *)
(*   env      AUCTION_DURATION_SECONDS                                     *)
(*   durOut   what getAuctionDuration returned, once it has been called    *)
(*            on its own                                                   *)
(*   req      the outcome of CreateAuction for each identifier             *)
(*   store    the auctions collection, by _id                              *)
(*   tasks    the closing goroutines, in the order they were spawned, each *)
(*            with its arguments auctionID and wait                        *)
(*   bidReq   the bid attempts                                             *)
(*   bids     the persisted bids                                           *)
(*   closedOnce  history: the identifiers whose record has been Finished   *)
(*   restarts the number of process restarts so far                        *)
(*   reqCtx   the context of the request that created each auction         *)
(*   findReq  a call of a bid query and what the bid repository answers    *)
(*   findOut  what the bid query returned, once it has been called         *)
(***************************************************************************)
VARIABLES now, env, durOut, req, store, tasks, bidReq, bids,
          closedOnce, restarts, reqCtx, findReq, findOut

vars == <<now, env, durOut, req, store, tasks, bidReq, bids,
          closedOnce, restarts, reqCtx, findReq, findOut>>

Ids == 1..MaxAuctions
BidIds == 1..MaxBids

NoDoc == [Id |-> 0]
NoFind == [fn |-> "none"]
Unset == [unset |-> TRUE]

\* The zero time.Time, for which IsZero holds.
ZeroTime == -1

\* The durations the auctions of the model run with.
EnvChoices == {<<>>, <<"1">>, <<"2">>, <<"1", "0">>}

\* What getAuctionDuration returns for each of them, in ticks.
DurationTicksOf == [v \in EnvChoices |-> DurationTicks(getAuctionDuration(v))]

IdleBid == [pc |-> "idle", auctionId |-> 0, afterClose |-> FALSE, result |-> "none"]

Init ==
    /\ now = 0
    /\ env \in EnvChoices
    /\ durOut = Unset
    /\ req = [a \in Ids |-> "none"]
    /\ store = [a \in Ids |-> NoDoc]
    /\ tasks = <<>>
    /\ bidReq = [b \in BidIds |-> IdleBid]
    /\ bids = {}
    /\ closedOnce = {}
    /\ restarts = 0
    /\ reqCtx = [a \in Ids |-> "live"]
    /\ findReq = NoFind
    /\ findOut = Unset

\* The identifiers whose stored record is Finished.
ClosedIn(st) == {a \in Ids : st[a] # NoDoc /\ st[a].Status = Finished}

(***************************************************************************)
(* auction_entity.CreateAuction builds the entity: status Active, and the  *)
(* timestamp of the instant it is built, or none.                          *)
(***************************************************************************)
\* The product attributes of the auction with identifier a; the condition is
\* one of New, Used, Refurbished.
ProductOf(a) ==
    [ProductName |-> a, Category |-> a + 10, Description |-> a + 20,
     Condition |-> a % 3]

NewAuctionEntity(a, ts) ==
    [Id |-> a,
     ProductName |-> ProductOf(a).ProductName,
     Category |-> ProductOf(a).Category,
     Description |-> ProductOf(a).Description,
     Condition |-> ProductOf(a).Condition,
     Status |-> Active,
     Timestamp |-> ts]

\* The timestamps of an entity handed to the repository at instant t: it was
\* built at t or before, or carries no timestamp.
EntityTimestamps(t) == {ZeroTime} \cup 0..t

(***************************************************************************)
(* AuctionRepository.CreateAuction                                         *)
(***************************************************************************)
\* Variant: the document is inserted as Finished.
AuctionEntityMongoStatusFinished(e) ==
    [Id |-> e.Id,
     ProductName |-> e.ProductName,
     Category |-> e.Category,
     Description |-> e.Description,
     Condition |-> e.Condition,
     Status |-> Finished,
     Timestamp |-> Unix(e.Timestamp)]

\* The document that is inserted: the fields of the entity, the timestamp
\* in Unix seconds.
AuctionEntityMongoOf(e) ==
    [Id |-> e.Id,
     ProductName |-> e.ProductName,
     Category |-> e.Category,
     Description |-> e.Description,
     Condition |-> e.Condition,
     Status |-> e.Status,
     Timestamp |-> Unix(e.Timestamp)]

\* Variant: no wait at all.
RemainingNone(duration, elapsed) == 0

\* Variant: the difference, not clamped at zero.
RemainingNoClamp(duration, elapsed) == duration - elapsed

\* How long the goroutine waits: what is left of the duration.
Remaining(duration, elapsed) ==
    IF elapsed >= duration THEN 0 ELSE duration - elapsed

\* Variant: the closure is called, not spawned, and has ended on return.
GoroutineInline(auctionID, wait, t) ==
    [auctionID |-> auctionID, wait |-> wait, pc |-> "done", wakeAt |-> 0,
     result |-> "closed"]

\* Variant: every goroutine is given the same identifier.
GoroutineSharedID(auctionID, wait, t) ==
    [auctionID |-> 1,
     wait |-> wait,
     pc |-> IF wait > 0 THEN "timer" ELSE "update",
     wakeAt |-> IF wait > 0 THEN t + wait ELSE 0,
     result |-> "none"]

\* go func(auctionID, wait), spawned at instant t: with wait > 0 the
\* goroutine sleeps on a timer that expires at t + wait.
Goroutine(auctionID, wait, t) ==
    [auctionID |-> auctionID,
     wait |-> wait,
     pc |-> IF wait > 0 THEN "timer" ELSE "update",
     wakeAt |-> IF wait > 0 THEN t + wait ELSE 0,
     result |-> "none"]

\* Variant: the goroutine is started before the error of the insert is
\* looked at.
CreateAuctionSpawnsFirst(a, auctionEntity) ==
    /\ req[a] = "none"
    /\ \A b \in Ids : b < a => req[b] # "none"
    /\ LET e == IF auctionEntity.Timestamp = ZeroTime
                THEN [auctionEntity EXCEPT !.Timestamp = now]
                ELSE auctionEntity
           doc == AuctionEntityMongoOf(e)
           duration == DurationTicksOf[env]
           createdAt == TimeOfUnix(doc.Timestamp)
           elapsed == now - createdAt
           remaining == Remaining(duration, elapsed)
       IN  \/ \* InsertOne fails
              /\ req' = [req EXCEPT ![a] = "err"]
              /\ tasks' = Append(tasks, Goroutine(doc.Id, remaining, now))
              /\ UNCHANGED <<store, closedOnce>>
           \/ \* InsertOne succeeds: _id is unique
              /\ store[doc.Id] = NoDoc
              /\ store' = [store EXCEPT ![doc.Id] = doc]
              /\ tasks' = Append(tasks, Goroutine(doc.Id, remaining, now))
              /\ req' = [req EXCEPT ![a] = "ok"]
              /\ closedOnce' = closedOnce \cup ClosedIn(store')
    /\ UNCHANGED <<now, env, durOut, bidReq, bids, restarts,
                   reqCtx, findReq, findOut>>

\* Identifiers are fresh: each is handed to the repository once, in order.
CreateAuction(a, auctionEntity) ==
    /\ req[a] = "none"
    /\ \A b \in Ids : b < a => req[b] # "none"
    /\ LET e == IF auctionEntity.Timestamp = ZeroTime
                THEN [auctionEntity EXCEPT !.Timestamp = now]
                ELSE auctionEntity
           doc == AuctionEntityMongoOf(e)
           duration == DurationTicksOf[env]
           createdAt == TimeOfUnix(doc.Timestamp)
           elapsed == now - createdAt
           remaining == Remaining(duration, elapsed)
       IN  \/ \* InsertOne fails
              /\ req' = [req EXCEPT ![a] = "err"]
              /\ UNCHANGED <<store, tasks, closedOnce>>
           \/ \* InsertOne succeeds: _id is unique
              /\ store[doc.Id] = NoDoc
              /\ store' = [store EXCEPT ![doc.Id] = doc]
              /\ tasks' = Append(tasks, Goroutine(doc.Id, remaining, now))
              /\ req' = [req EXCEPT ![a] = "ok"]
              /\ closedOnce' = closedOnce \cup ClosedIn(store')
    /\ UNCHANGED <<now, env, durOut, bidReq, bids, restarts,
                   reqCtx, findReq, findOut>>

(***************************************************************************)
(* The closing goroutine.                                                  *)
(***************************************************************************)
\* <-timer.C: the timer has expired.
TimerFire(i) ==
    /\ i \in 1..Len(tasks)
    /\ tasks[i].pc = "timer"
    /\ now >= tasks[i].wakeAt
    /\ tasks' = [tasks EXCEPT ![i] = [@ EXCEPT !.pc = "update", !.wakeAt = 0]]
    /\ UNCHANGED <<now, env, durOut, req, store, bidReq, bids,
                   closedOnce, restarts,
                   reqCtx, findReq, findOut>>

\* Variant: the filter does not ask for status Active.
FindOneAndUpdateAnyStatus(st, auctionID) ==
    IF auctionID \in Ids /\ st[auctionID] # NoDoc
    THEN [store |-> [st EXCEPT ![auctionID] = [@ EXCEPT !.Status = Finished]],
          matched |-> TRUE]
    ELSE [store |-> st, matched |-> FALSE]

\* Variant: Active and Finished exchanged in the filter and the update.
FindOneAndUpdateSwapped(st, auctionID) ==
    IF auctionID \in Ids /\ st[auctionID] # NoDoc
       /\ st[auctionID].Status = Finished
    THEN [store |-> [st EXCEPT ![auctionID] = [@ EXCEPT !.Status = Active]],
          matched |-> TRUE]
    ELSE [store |-> st, matched |-> FALSE]

\* Variant: the matching record is replaced by one that holds the identifier
\* and the status only.
FindOneAndReplace(st, auctionID) ==
    IF auctionID \in Ids /\ st[auctionID] # NoDoc
       /\ st[auctionID].Status = Active
    THEN [store |-> [st EXCEPT ![auctionID] =
                       [Id |-> auctionID, ProductName |-> 0, Category |-> 0,
                        Description |-> 0, Condition |-> 0,
                        Status |-> Finished, Timestamp |-> 0]],
          matched |-> TRUE]
    ELSE [store |-> st, matched |-> FALSE]

\* Variant: with the upsert option, a missing record is created.
FindOneAndUpdateUpsert(st, auctionID) ==
    IF auctionID \in Ids /\ st[auctionID] = NoDoc
    THEN [store |-> [st EXCEPT ![auctionID] =
                       [Id |-> auctionID, ProductName |-> 0, Category |-> 0,
                        Description |-> 0, Condition |-> 0,
                        Status |-> Finished, Timestamp |-> 0]],
          matched |-> TRUE]
    ELSE IF auctionID \in Ids /\ st[auctionID].Status = Active
    THEN [store |-> [st EXCEPT ![auctionID] = [@ EXCEPT !.Status = Finished]],
          matched |-> TRUE]
    ELSE [store |-> st, matched |-> FALSE]

\* Collection.FindOneAndUpdate with filter {_id: auctionID, status: Active}
\* and update {$set: {status: Finished}}: the collection afterwards, and
\* whether a document matched.  The store applies it atomically.
FindOneAndUpdate(st, auctionID) ==
    IF auctionID \in Ids /\ st[auctionID] # NoDoc
       /\ st[auctionID].Status = Active
    THEN [store |-> [st EXCEPT ![auctionID] = [@ EXCEPT !.Status = Finished]],
          matched |-> TRUE]
    ELSE [store |-> st, matched |-> FALSE]

\* Variant: after an error the goroutine stays at the update and tries again.
AbandonedButRetried(t) == [t EXCEPT !.result = "error"]

\* Any other error: it is logged and the goroutine returns.
Abandoned(t) == [t EXCEPT !.pc = "done", !.result = "error"]

\* The update and the three ways the goroutine ends.
AutoClose(i) ==
    /\ i \in 1..Len(tasks)
    /\ tasks[i].pc = "update"
    /\ \/ \* any other error, the timeout of the update among them
          /\ tasks' = [tasks EXCEPT ![i] = Abandoned(@)]
          /\ UNCHANGED <<store, closedOnce>>
       \/ LET r == FindOneAndUpdate(store, tasks[i].auctionID)
          IN  /\ store' = r.store
              /\ tasks' = [tasks EXCEPT ![i] =
                             [@ EXCEPT !.pc = "done",
                                       !.result = IF r.matched THEN "closed"
                                                  ELSE "nomatch"]]
              /\ closedOnce' = closedOnce \cup ClosedIn(store')
    /\ UNCHANGED <<now, env, durOut, req, bidReq, bids, restarts,
                   reqCtx, findReq, findOut>>

(***************************************************************************)
(* The bid acceptance gate: the status is read from the store, and the bid *)
(* is persisted only if that status was Active.                            *)
(***************************************************************************)
\* Variant: the gate does not look at the status.
BidGateIgnoresStatus(doc) ==
    IF doc = NoDoc THEN "NotFound" ELSE "admit"

BidGate(doc) ==
    IF doc = NoDoc THEN "NotFound"
    ELSE IF doc.Status # Active THEN "AuctionClosed"
    ELSE "admit"

PlaceBid(b, a) ==
    /\ bidReq[b].pc = "idle"
    /\ LET g == BidGate(store[a])
       IN  bidReq' = [bidReq EXCEPT ![b] =
                        [pc |-> IF g = "admit" THEN "insert" ELSE "done",
                         auctionId |-> a,
                         afterClose |-> a \in closedOnce,
                         result |-> IF g = "admit" THEN "none" ELSE g]]
    /\ UNCHANGED <<now, env, durOut, req, store, tasks, bids,
                   closedOnce, restarts,
                   reqCtx, findReq, findOut>>

InsertBid(b) ==
    /\ bidReq[b].pc = "insert"
    /\ bids' = bids \cup {[Id |-> b, AuctionId |-> bidReq[b].auctionId]}
    /\ bidReq' = [bidReq EXCEPT ![b] = [@ EXCEPT !.pc = "done", !.result = "ok"]]
    /\ UNCHANGED <<now, env, durOut, req, store, tasks, closedOnce,
                   restarts,
                   reqCtx, findReq, findOut>>

(***************************************************************************)
(* The clock, and a restart of the process: the goroutines are gone, the   *)
(* store is kept.                                                          *)
(***************************************************************************)
Tick ==
    /\ now < MaxTime
    /\ now' = now + 1
    /\ UNCHANGED <<env, durOut, req, store, tasks, bidReq, bids,
                   closedOnce, restarts,
                   reqCtx, findReq, findOut>>

Lost(t) == IF t.pc = "done" THEN t ELSE [t EXCEPT !.pc = "lost", !.wakeAt = 0]

Restart ==
    /\ restarts < MaxRestarts
    /\ \E i \in 1..Len(tasks) : tasks[i].pc # "done"
    /\ restarts' = restarts + 1
    /\ tasks' = [i \in 1..Len(tasks) |-> Lost(tasks[i])]
    /\ UNCHANGED <<now, env, durOut, req, store, bidReq, bids, closedOnce,
                   reqCtx, findReq, findOut>>

Next ==
    \/ \E a \in Ids, ts \in EntityTimestamps(now) :
          CreateAuction(a, NewAuctionEntity(a, ts))
    \/ \E i \in DOMAIN tasks : TimerFire(i)
    \/ \E i \in DOMAIN tasks : AutoClose(i)
    \/ Tick
    \/ Restart

Spec == Init /\ [][Next]_vars


(***************************************************************************)
(* The same, with what the Go runtime guarantees: time passes, an expired  *)
(* timer wakes its goroutine, and a goroutine that can run does run.  A    *)
(* restart is never forced.                                                *)
(***************************************************************************)
TaskSlots == 1..MaxAuctions

LiveSpec ==
    /\ Init
    /\ [][Next]_vars
    /\ WF_vars(Tick)
    /\ \A i \in TaskSlots : WF_vars(TimerFire(i)) /\ WF_vars(AutoClose(i))

(***************************************************************************)
(* Several close attempts for one identifier: a store that already holds   *)
(* auctions, and up to MaxAttempts goroutines whose timers have expired.   *)
(***************************************************************************)
StoredDocs(a) ==
    {NoDoc} \cup
    {[AuctionEntityMongoOf(NewAuctionEntity(a, 0)) EXCEPT !.Status = s] :
        s \in {Active, Finished}}

Attempt(a) ==
    [auctionID |-> a, wait |-> 0, pc |-> "update", wakeAt |-> 0, result |-> "none"]

AttemptLists ==
    UNION {[1..n -> {Attempt(a) : a \in Ids}] : n \in 1..MaxAttempts}

InitClose ==
    /\ now = 0
    /\ env = <<"1">>
    /\ durOut = Unset
    /\ store \in {st \in [Ids -> UNION {StoredDocs(a) : a \in Ids}] :
                     \A a \in Ids : st[a] \in StoredDocs(a)}
    /\ req = [a \in Ids |-> IF store[a] = NoDoc THEN "none" ELSE "ok"]
    /\ tasks \in {l \in AttemptLists :
                     \A i \in 1..(Len(l) - 1) : l[i].auctionID <= l[i + 1].auctionID}
    /\ bidReq = [b \in BidIds |-> IdleBid]
    /\ bids = {}
    /\ closedOnce = ClosedIn(store)
    /\ restarts = 0
    /\ reqCtx = [a \in Ids |-> "live"]
    /\ findReq = NoFind
    /\ findOut = Unset

NextClose ==
    \/ \E i \in DOMAIN tasks : AutoClose(i)
    \/ \E b \in BidIds, a \in Ids : PlaceBid(b, a)
    \/ \E b \in BidIds : InsertBid(b)

SpecClose == InitClose /\ [][NextClose]_vars

(***************************************************************************)
(* getAuctionDuration on its own, for every environment value of up to     *)
(* MaxEnvLen characters and for the values at the edges of int and of      *)
(* time.Duration.                                                          *)
(***************************************************************************)
EnvAlphabet == {"0", "1", "7", "-", "+", "x"}

EdgeValues ==
    {<<"6","0","0">>,
     <<"9","2","2","3","3","7","2","0","3","6">>,
     <<"9","2","2","3","3","7","2","0","3","7">>,
     <<"1","8","4","4","6","7","4","4","0","7","4">>,
     <<"9","9","9","9","9","9","9","9","9","9","9">>,
     <<"9","2","2","3","3","7","2","0","3","6","8","5","4","7","7","5","8","0","8">>,
     <<"-","9","2","2","3","3","7","2","0","3","6","8","5","4","7","7","5","8","0","8">>}

EnvInputs ==
    UNION {[1..n -> EnvAlphabet] : n \in 0..MaxEnvLen} \cup EdgeValues

InitDur ==
    /\ now = 0
    /\ env \in EnvInputs
    /\ durOut = Unset
    /\ req = [a \in Ids |-> "none"]
    /\ store = [a \in Ids |-> NoDoc]
    /\ tasks = <<>>
    /\ bidReq = [b \in BidIds |-> IdleBid]
    /\ bids = {}
    /\ closedOnce = {}
    /\ restarts = 0
    /\ reqCtx = [a \in Ids |-> "live"]
    /\ findReq = NoFind
    /\ findOut = Unset

ReadDuration ==
    /\ durOut = Unset
    /\ durOut' = getAuctionDuration(env)
    /\ UNCHANGED <<now, env, req, store, tasks, bidReq, bids,
                   closedOnce, restarts,
                   reqCtx, findReq, findOut>>

SpecDur == InitDur /\ [][ReadDuration]_vars

(***************************************************************************)
(* The store call of the goroutine on a store that may stall: the call is  *)
(* in flight from the moment it is made until the store answers or the     *)
(* context of the call is done.  Every auction is stored, its goroutine's  *)
(* timer has expired, and the goroutine is scheduled within MaxSlack       *)
(* seconds.  The clock moves in whole seconds.                             *)
(***************************************************************************)
UpdateTimeoutTicks == UpdateTimeoutSeconds * TicksPerSecond
StallHorizon == (MaxSlack + UpdateTimeoutSeconds + 1) * TicksPerSecond

\* Variant: a context with no deadline.
WithoutTimeout(t) == StallHorizon + 1

\* context.WithTimeout(context.Background(), 10*time.Second) at instant t:
\* the deadline.
WithTimeout(t) == t + UpdateTimeoutTicks

\* Variant: the context is derived from the context of the request.
UpdateCtxDoneWithRequest(t, deadline, parent) ==
    t >= deadline \/ parent = "canceled"

\* updateCtx is done when its deadline has passed; its parent is
\* context.Background(), which is never cancelled, not the request's context.
UpdateCtxDone(t, deadline, parent) == t >= deadline

\* The request that created the auction ends, or is cancelled.
RequestEnds(a) ==
    /\ reqCtx[a] = "live"
    /\ reqCtx' = [reqCtx EXCEPT ![a] = "canceled"]
    /\ UNCHANGED <<now, env, durOut, req, store, tasks, bidReq, bids,
                   closedOnce, restarts, findReq, findOut>>

\* The context is made and FindOneAndUpdate is called.
UpdateCall(i) ==
    /\ i \in 1..Len(tasks)
    /\ tasks[i].pc = "update"
    /\ tasks' = [tasks EXCEPT ![i] =
                   [@ EXCEPT !.pc = "calling", !.wakeAt = WithTimeout(now)]]
    /\ UNCHANGED <<now, env, durOut, req, store, bidReq, bids,
                   closedOnce, restarts, reqCtx, findReq, findOut>>

\* The store answers: the update was applied, nothing matched, or an error.
UpdateReturn(i) ==
    /\ i \in 1..Len(tasks)
    /\ tasks[i].pc = "calling"
    /\ \/ /\ tasks' = [tasks EXCEPT ![i] = [Abandoned(@) EXCEPT !.wakeAt = 0]]
          /\ UNCHANGED <<store, closedOnce>>
       \/ LET r == FindOneAndUpdate(store, tasks[i].auctionID)
          IN  /\ store' = r.store
              /\ tasks' = [tasks EXCEPT ![i] =
                             [@ EXCEPT !.pc = "done",
                                       !.wakeAt = 0,
                                       !.result = IF r.matched THEN "closed"
                                                  ELSE "nomatch"]]
              /\ closedOnce' = closedOnce \cup ClosedIn(store')
    /\ UNCHANGED <<now, env, durOut, req, bidReq, bids, restarts, reqCtx, findReq, findOut>>

\* The context is done before the store has answered: the call returns the
\* context's error, which the goroutine logs.
ContextDone(i) ==
    /\ i \in 1..Len(tasks)
    /\ tasks[i].pc = "calling"
    /\ UpdateCtxDone(now, tasks[i].wakeAt, reqCtx[tasks[i].auctionID])
    /\ tasks' = [tasks EXCEPT ![i] = [@ EXCEPT !.pc = "done", !.result = "timeout"]]
    /\ UNCHANGED <<now, env, durOut, req, store, bidReq, bids,
                   closedOnce, restarts, reqCtx, findReq, findOut>>

StallTick ==
    /\ now < StallHorizon
    /\ \A i \in DOMAIN tasks :
          tasks[i].pc = "update" => now < MaxSlack * TicksPerSecond
    /\ now' = now + TicksPerSecond
    /\ UNCHANGED <<env, durOut, req, store, tasks, bidReq, bids,
                   closedOnce, restarts, reqCtx, findReq, findOut>>

InitStall ==
    /\ now = 0
    /\ env = <<"1">>
    /\ durOut = Unset
    /\ store \in {st \in [Ids -> UNION {StoredDocs(a) : a \in Ids}] :
                     \A a \in Ids : st[a] \in StoredDocs(a) \ {NoDoc}}
    /\ req = [a \in Ids |-> "ok"]
    /\ tasks = [a \in Ids |-> Attempt(a)]
    /\ bidReq = [b \in BidIds |-> IdleBid]
    /\ bids = {}
    /\ closedOnce = ClosedIn(store)
    /\ restarts = 0
    /\ reqCtx = [a \in Ids |-> "live"]
    /\ findReq = NoFind
    /\ findOut = Unset

NextStall ==
    \/ \E a \in Ids : RequestEnds(a)
    \/ \E i \in DOMAIN tasks : UpdateCall(i)
    \/ \E i \in DOMAIN tasks : UpdateReturn(i)
    \/ \E i \in DOMAIN tasks : ContextDone(i)
    \/ StallTick

\* Time passes, a goroutine that can make its call makes it, and a context
\* that is done ends the call.  The store is not obliged to answer.
SpecStall ==
    /\ InitStall
    /\ [][NextStall]_vars
    /\ WF_vars(StallTick)
    /\ \A i \in TaskSlots : WF_vars(UpdateCall(i)) /\ WF_vars(ContextDone(i))

(***************************************************************************)
(* BidUseCase.FindBidByAuctionId and FindWinningBidByAuctionId on their    *)
(* own, for every answer of the bid repository: an error, or up to         *)
(* MaxFound bid entities, or one bid entity.                               *)
(***************************************************************************)
BidEntities ==
    {[Id |-> i, UserId |-> 10 + i, AuctionId |-> a, Amount |-> 100 * i,
      Timestamp |-> 1000 + i] : i \in 1..2, a \in {1}}
    \cup {[Id |-> 3, UserId |-> 11, AuctionId |-> 2, Amount |-> 100,
           Timestamp |-> 1001]}

RepositoryErrors == {"NotFound", "InternalServerError"}

NoDTO == [nil |-> TRUE]

\* Variant: user and auction exchanged.
BidOutputDTOSwapped(bid) ==
    [Id |-> bid.Id,
     UserId |-> bid.AuctionId,
     AuctionId |-> bid.UserId,
     Amount |-> bid.Amount,
     Timestamp |-> bid.Timestamp]

\* The BidOutputDTO literal built from a bid entity.
BidOutputDTOOf(bid) ==
    [Id |-> bid.Id,
     UserId |-> bid.UserId,
     AuctionId |-> bid.AuctionId,
     Amount |-> bid.Amount,
     Timestamp |-> bid.Timestamp]

\* A nil slice and an empty one are both the empty sequence.
FindBidByAuctionId(reply) ==
    IF reply.err # "nil"
    THEN [dtos |-> <<>>, err |-> reply.err]
    ELSE [dtos |-> [i \in 1..Len(reply.bids) |-> BidOutputDTOOf(reply.bids[i])],
          err |-> "nil"]

FindWinningBidByAuctionId(reply) ==
    IF reply.err # "nil"
    THEN [dto |-> NoDTO, err |-> reply.err]
    ELSE [dto |-> BidOutputDTOOf(reply.bid), err |-> "nil"]

\* What BidRepository.FindBidByAuctionId may answer.
ListReplies ==
    {[err |-> e, bids |-> <<>>] : e \in RepositoryErrors}
    \cup {[err |-> "nil", bids |-> l] :
             l \in UNION {[1..n -> BidEntities] : n \in 0..MaxFound}}

\* What BidRepository.FindWinningBidByAuctionId may answer.
WinningReplies ==
    {[err |-> e, bid |-> NoDTO] : e \in RepositoryErrors}
    \cup {[err |-> "nil", bid |-> b] : b \in BidEntities}

FindCalls ==
    {[fn |-> "FindBidByAuctionId", auctionId |-> a, reply |-> r] :
        a \in Ids, r \in ListReplies}
    \cup {[fn |-> "FindWinningBidByAuctionId", auctionId |-> a, reply |-> r] :
             a \in Ids, r \in WinningReplies}

InitFind ==
    /\ now = 0
    /\ env = <<>>
    /\ durOut = Unset
    /\ req = [a \in Ids |-> "ok"]
    /\ store = [a \in Ids |-> AuctionEntityMongoOf(NewAuctionEntity(a, 0))]
    /\ tasks = <<>>
    /\ bidReq = [b \in BidIds |-> IdleBid]
    /\ bids = {[Id |-> 1, AuctionId |-> 1]}
    /\ closedOnce = {}
    /\ restarts = 0
    /\ reqCtx = [a \in Ids |-> "live"]
    /\ findReq \in FindCalls
    /\ findOut = Unset

FindCall ==
    /\ findOut = Unset
    /\ findOut' = IF findReq.fn = "FindBidByAuctionId"
                  THEN FindBidByAuctionId(findReq.reply)
                  ELSE FindWinningBidByAuctionId(findReq.reply)
    /\ UNCHANGED <<now, env, durOut, req, store, tasks, bidReq, bids,
                   closedOnce, restarts, reqCtx, findReq>>

SpecFind == InitFind /\ [][FindCall]_vars


(***************************************************************************)
(* Vocabulary of the properties.                                           *)
(***************************************************************************)
Stored(a) == store[a] # NoDoc
IsOpen(a) == Stored(a) /\ store[a].Status = Active
IsClosed(a) == Stored(a) /\ store[a].Status = Finished

\* The duration CreateAuction computes, and the instant createdAt + duration.
ConfiguredTicks == DurationTicksOf[env]
DueAt(a) == TimeOfUnix(store[a].Timestamp) + ConfiguredTicks

\* The goroutines given identifier a, and how they ended.
AttemptsFor(a) == {i \in DOMAIN tasks : tasks[i].auctionID = a}
Won(a) == {i \in AttemptsFor(a) : tasks[i].result = "closed"}
NoMatch(a) == {i \in AttemptsFor(a) : tasks[i].result = "nomatch"}
Failed(a) == {i \in AttemptsFor(a) : tasks[i].result = "error"}
Pending(a) == {i \in AttemptsFor(a) : tasks[i].pc \in {"timer", "update"}}
LostTo(a) == {i \in AttemptsFor(a) : tasks[i].pc = "lost"}
Settled(a) ==
    /\ AttemptsFor(a) # {}
    /\ \A i \in AttemptsFor(a) : tasks[i].pc = "done"

DueWithinHorizon(a) ==
    /\ Stored(a)
    /\ \E i \in AttemptsFor(a) :
          \/ tasks[i].pc = "update"
          \/ tasks[i].pc = "timer" /\ tasks[i].wakeAt <= MaxTime

EveryAuctionEventuallyClosed ==
    \A a \in Ids : DueWithinHorizon(a) ~> IsClosed(a)

(***************************************************************************)
(* C2, amended: every such auction is eventually Finished, at an instant   *)
(* not before createdAt + duration, unless the store call of its close     *)
(* attempt fails, in which case the goroutine ends and the auction stays   *)
(* Active, or the process restarts first, in which case the goroutine is   *)
(* lost.                                                                   *)
(***************************************************************************)
EventuallyClosedUnlessStoreError ==
    \A a \in Ids :
        DueWithinHorizon(a) ~>
            \/ IsClosed(a) /\ now >= DueAt(a)
            \/ IsOpen(a) /\ Failed(a) # {} /\ Pending(a) = {}
            \/ IsOpen(a) /\ LostTo(a) # {} /\ Pending(a) = {}

\* An auction created and then closed by its own goroutine.
AutoClosed ==
    \E a \in Ids : req[a] = "ok" /\ IsClosed(a) /\ Won(a) # {}

(***************************************************************************)
(* C3, as claimed: when all the close attempts for an auction that was     *)
(* Active have ended, exactly one of them closed it, all the others found  *)
(* no match, and the stored status is Finished.                            *)
(***************************************************************************)
\* Only a close attempt sets Finished: a record that is Active, or that an
\* attempt closed, was Active when the attempts started.
OpenAtStart(a) == Stored(a) /\ (store[a].Status = Active \/ Won(a) # {})

ExactlyOneCloses ==
    \A a \in Ids :
        (Settled(a) /\ OpenAtStart(a)) =>
            /\ Cardinality(Won(a)) = 1
            /\ Cardinality(NoMatch(a)) = Cardinality(AttemptsFor(a)) - 1
            /\ IsClosed(a)

(***************************************************************************)
(* C3, amended: at most one attempt ever closes the auction; when all the  *)
(* attempts have ended and at least one store call did not fail, exactly   *)
(* one attempt closed it, every other attempt that did not fail found no   *)
(* match, and the stored status is Finished; when every store call failed, *)
(* the auction is still Active.                                            *)
(***************************************************************************)
ExactlyOneClosesUnlessStoreError ==
    \A a \in Ids :
        /\ Cardinality(Won(a)) <= 1
        /\ (Settled(a) /\ OpenAtStart(a)) =>
              IF Failed(a) = AttemptsFor(a)
              THEN IsOpen(a)
              ELSE /\ Cardinality(Won(a)) = 1
                   /\ Cardinality(NoMatch(a)) =
                        Cardinality(AttemptsFor(a)) - Cardinality(Failed(a)) - 1
                   /\ IsClosed(a)

\* Three attempts for one identifier: one closed it, two found no match.
ThreeAttemptsOneWinner ==
    \E a \in Ids :
        /\ Settled(a)
        /\ Cardinality(AttemptsFor(a)) >= 3
        /\ Cardinality(Won(a)) = 1
        /\ Cardinality(NoMatch(a)) >= 2
        /\ IsClosed(a)

(***************************************************************************)
(* C4: a stored record stays stored, and the only change of its status is  *)
(* from Active to Finished; so a Finished record stays Finished and a      *)
(* status changes at most once.                                            *)
(***************************************************************************)
StatusOnlyOpenToClosed ==
    [][\A a \in Ids :
          Stored(a) =>
             /\ store'[a] # NoDoc
             /\ store'[a].Status # store[a].Status =>
                   (store[a].Status = Active /\ store'[a].Status = Finished)]_vars

\* A close attempt has run against a record that was already Finished.
AttemptOnClosed ==
    \E a \in Ids : IsClosed(a) /\ NoMatch(a) # {}

PositiveIntegerString(v) ==
    LET body == IF v # <<>> /\ v[1] = "+" THEN Tail(v) ELSE v
    IN  body # <<>> /\ AllDigits(body) /\ StripZeros(DigitsOf(body)) # <<>>

IntegerValue(v) ==
    StripZeros(DigitsOf(IF v[1] = "+" THEN Tail(v) ELSE v))

ExactSeconds(n) == [neg |-> FALSE, mag |-> NatMul(n, Second)]

DurationIsSettingOrDefault ==
    durOut # Unset =>
        durOut = IF PositiveIntegerString(env)
                 THEN ExactSeconds(IntegerValue(env))
                 ELSE ExactSeconds(NatOfInt(DefaultSeconds))

EveryCreatedClosed ==
    \A a \in Ids : (req[a] = "ok" /\ Settled(a)) => IsClosed(a)

(***************************************************************************)
(* C8, amended: every created auction has exactly one closing goroutine,   *)
(* its own; once that goroutine has ended the auction is Finished, unless  *)
(* the store call of the close attempt failed.                             *)
(***************************************************************************)
OwnTaskClosesUnlessStoreError ==
    /\ Len(tasks) = Cardinality({a \in Ids : req[a] = "ok"})
    /\ \A a \in Ids :
          req[a] = "ok" =>
             /\ Cardinality(AttemptsFor(a)) = 1
             /\ (Settled(a) /\ Failed(a) = {}) => (IsClosed(a) /\ Won(a) # {})

\* Two auctions, each closed by its own goroutine.
TwoAuctionsClosed ==
    \E a, b \in Ids :
        /\ a # b
        /\ IsClosed(a) /\ Won(a) # {}
        /\ IsClosed(b) /\ Won(b) # {}

(***************************************************************************)
(* C9, as claimed: after a restart every auction that is still Active has  *)
(* a closing goroutine armed again.                                        *)
(***************************************************************************)
RestartRearms ==
    [][restarts' > restarts =>
          \A a \in Ids :
             (store'[a] # NoDoc /\ store'[a].Status = Active) =>
                \E i \in DOMAIN tasks' :
                   /\ tasks'[i].auctionID = a
                   /\ tasks'[i].pc \in {"timer", "update"}]_vars

(***************************************************************************)
(* C10: CreateAuction returns success at the instant of the insert, with   *)
(* the goroutine spawned and not yet ended and the record still Active: it *)
(* waits neither for the timer nor for the update.                         *)
(***************************************************************************)
ReturnsBeforeClose ==
    [][\A a \in Ids :
          (req[a] = "none" /\ req'[a] = "ok") =>
             /\ now' = now
             /\ store'[a] # NoDoc /\ store'[a].Status = Active
             /\ Len(tasks') = Len(tasks) + 1
             /\ tasks'[Len(tasks')].pc \in {"timer", "update"}
             /\ tasks'[Len(tasks')].result = "none"]_vars

\* The creation has returned, the auction is Active, the timer is running.
ReturnedWhileWaiting ==
    \E a \in Ids :
        /\ req[a] = "ok"
        /\ IsOpen(a)
        /\ \E i \in AttemptsFor(a) : tasks[i].pc = "timer" /\ now < tasks[i].wakeAt

(***************************************************************************)
(* C11: the wait handed to the goroutine is max(0, duration - elapsed),    *)
(* elapsed being the time since createdAt: it is never negative, it is 0   *)
(* when elapsed >= duration, and with a wait of 0 the goroutine is at the  *)
(* update at once, with no timer armed.                                    *)
(***************************************************************************)
WaitIsClampedRemainder ==
    [][\A a \in Ids :
          (req[a] = "none" /\ req'[a] = "ok") =>
             LET g == tasks'[Len(tasks')]
                 elapsed == now - TimeOfUnix(store'[a].Timestamp)
                 rest == ConfiguredTicks - elapsed
             IN  /\ Len(tasks') = Len(tasks) + 1
                 /\ g.wait >= 0
                 /\ g.wait = IF rest > 0 THEN rest ELSE 0
                 /\ elapsed >= ConfiguredTicks => g.wait = 0
                 /\ g.wait = 0 => (g.pc = "update" /\ g.wakeAt = 0)
                 /\ g.wait > 0 => (g.pc = "timer" /\ g.wakeAt = now + g.wait)]_vars

\* An auction created when its duration had already elapsed: the goroutine
\* is at the update with no wait.
ImmediateAttempt ==
    \E i \in DOMAIN tasks :
        /\ tasks[i].wait = 0
        /\ tasks[i].pc = "update"
        /\ ConfiguredTicks > 0
        /\ store[tasks[i].auctionID] # NoDoc
        /\ now >= DueAt(tasks[i].auctionID)

(***************************************************************************)
(* C12: a close attempt that ends on a store error leaves the whole store  *)
(* as it was, so a record that was Active is still Active; the goroutine   *)
(* has ended, no other goroutine is started or touched, and an update for  *)
(* the same identifier made afterwards still matches the record.           *)
(***************************************************************************)
StoreErrorEndsOnlyTheAttempt ==
    [][\A i \in DOMAIN tasks :
          (tasks[i].pc = "update" /\ tasks'[i].result = "error") =>
             LET a == tasks[i].auctionID
             IN  /\ store' = store
                 /\ tasks'[i].pc = "done"
                 /\ Len(tasks') = Len(tasks)
                 /\ \A j \in DOMAIN tasks : j # i => tasks'[j] = tasks[j]
                 /\ IsOpen(a) =>
                       /\ store'[a].Status = Active
                       /\ FindOneAndUpdate(store', a).matched
                       /\ FindOneAndUpdate(store', a).store[a].Status = Finished]_vars

\* An attempt ended on an error, the record is still Active, and another
\* attempt for the same identifier has yet to run.
FailedAndStillOpen ==
    \E a \in Ids :
        /\ IsOpen(a)
        /\ Failed(a) # {}
        /\ \E i \in AttemptsFor(a) : tasks[i].pc = "update"

(***************************************************************************)
(* C13: a close attempt for an identifier with no Active record, because   *)
(* the record is Finished or because there is none, never closes anything: *)
(* it leaves the whole store and the bids as they were and creates no      *)
(* record; when its store call does not fail it ends as a no-match, which  *)
(* is not an error; and an attempt ends as a no-match only in that case.   *)
(***************************************************************************)
NoMatchIsNoOp ==
    [][\A i \in DOMAIN tasks :
          (tasks[i].pc = "update" /\ tasks'[i].pc = "done") =>
             LET a == tasks[i].auctionID
             IN  /\ ~IsOpen(a) =>
                       /\ store' = store
                       /\ bids' = bids
                       /\ tasks'[i].result \in {"nomatch", "error"}
                 /\ tasks'[i].result = "nomatch" =>
                       /\ ~IsOpen(a)
                       /\ store' = store
                       /\ Len(tasks') = Len(tasks)]_vars

\* A close attempt for an identifier that has no record ended as a no-match,
\* and there is still no record.
NoMatchOnAbsent ==
    \E a \in Ids : ~Stored(a) /\ NoMatch(a) # {}

(***************************************************************************)
(* C14: when the insert fails, CreateAuction returns an internal error, no *)
(* goroutine has been started and the store holds what it held before.     *)
(***************************************************************************)
FailedInsertLeavesNothing ==
    [][\A a \in Ids :
          (req[a] = "none" /\ req'[a] = "err") =>
             /\ store' = store
             /\ tasks' = tasks
             /\ store'[a] = NoDoc
             /\ \A i \in DOMAIN tasks' : tasks'[i].auctionID # a]_vars

\* A creation has failed: no record and no goroutine for its identifier,
\* while another auction was created and has its goroutine.
InsertFailed ==
    \E a, b \in Ids :
        /\ req[a] = "err" /\ ~Stored(a) /\ AttemptsFor(a) = {}
        /\ req[b] = "ok" /\ AttemptsFor(b) # {}

\* As many closing goroutines for an identifier as successful creations of
\* it: one or none.
OneGoroutinePerCreation ==
    \A a \in Ids :
        Cardinality(AttemptsFor(a)) = IF req[a] = "ok" THEN 1 ELSE 0

(***************************************************************************)
(* C15: every identifier has as many closing goroutines as successful      *)
(* creations, one or none; a goroutine makes its store call once: the step *)
(* that makes the call ends the goroutine, a goroutine that has ended does *)
(* nothing more, and the store changes only in such a step.                *)
(***************************************************************************)
OneAttemptPerCreation ==
    [][/\ OneGoroutinePerCreation
       /\ OneGoroutinePerCreation'
       /\ \A i \in DOMAIN tasks :
             /\ tasks[i].pc = "done" => tasks'[i] = tasks[i]
             /\ (tasks[i].pc = "update" /\ tasks'[i] # tasks[i]) =>
                   tasks'[i].pc \in {"done", "lost"}
       /\ (\E a \in Ids : store[a] # NoDoc /\ store'[a] # store[a]) =>
             Cardinality({i \in DOMAIN tasks :
                             tasks[i].pc = "update" /\ tasks'[i].pc = "done"}) = 1]_vars

\* One creation failed and one succeeded; the goroutine of the latter, the
\* only one there is, has made its call and ended.
OneGoroutineEnded ==
    \E a, b \in Ids :
        /\ req[a] = "ok" /\ Settled(a) /\ Len(tasks) = 1
        /\ req[b] = "err"

(***************************************************************************)
(* C16: a close attempt, whether it closes, finds no match or fails,       *)
(* leaves every record but the one with its identifier as it was, and      *)
(* changes of that one nothing but the status: identifier, product name,   *)
(* category, description, condition and timestamp stay.                    *)
(***************************************************************************)
CloseTouchesOnlyStatus ==
    [][\A i \in DOMAIN tasks :
          (tasks[i].pc = "update" /\ tasks'[i].pc = "done") =>
             \A a \in Ids :
                \/ store'[a] = store[a]
                \/ /\ a = tasks[i].auctionID
                   /\ store[a] # NoDoc
                   /\ store'[a] = [store[a] EXCEPT !.Status = Finished]]_vars

\* One record was closed by an attempt while another record, with its own
\* attributes, is stored and Active.
ClosedBesideOpen ==
    \E a, b \in Ids :
        /\ a # b
        /\ IsClosed(a) /\ Won(a) # {}
        /\ store[a].ProductName = ProductOf(a).ProductName
        /\ IsOpen(b)
        /\ store[b].ProductName = ProductOf(b).ProductName

(***************************************************************************)
(* C17: every closing goroutine whose wait is over ends, as closed, no     *)
(* match, error or timeout, even if the store never answers; the deadline  *)
(* of its call is 10 seconds after the call was made; and the call is      *)
(* given up only when that deadline has passed, whatever has become of the *)
(* context of the request that created the auction.                        *)
(***************************************************************************)
ClosingTaskTerminates ==
    /\ \A i \in TaskSlots :
          (i \in DOMAIN tasks /\ tasks[i].pc \in {"update", "calling"}) ~>
             /\ tasks[i].pc = "done"
             /\ tasks[i].result \in {"closed", "nomatch", "error", "timeout"}
    /\ [][\A i \in DOMAIN tasks :
             /\ (tasks[i].pc = "update" /\ tasks'[i].pc = "calling") =>
                   tasks'[i].wakeAt = now + UpdateTimeoutSeconds * TicksPerSecond
             /\ (tasks[i].pc = "calling" /\ tasks'[i].result = "timeout") =>
                   /\ now >= tasks[i].wakeAt
                   /\ store' = store
             /\ (tasks[i].pc = "calling" /\ tasks'[i] # tasks[i]) =>
                   tasks'[i].pc = "done"]_vars

\* The store never answered one call, which ended at its deadline; another
\* call closed its auction after the request that created it had ended.
TimedOutAndClosedAfterRequest ==
    \E i, j \in DOMAIN tasks :
        /\ tasks[i].result = "timeout"
        /\ IsOpen(tasks[i].auctionID)
        /\ tasks[j].result = "closed"
        /\ reqCtx[tasks[j].auctionID] = "canceled"
        /\ reqCtx[tasks[i].auctionID] = "canceled"

(***************************************************************************)
(* C18: under every interleaving of bids and close attempts, the gate      *)
(* admits a bid exactly when the status it reads is Active; a bid is       *)
(* persisted only after its gate admitted it, so never for an attempt that *)
(* started once the record was Finished; and an admitted bid is persisted  *)
(* even when the close is committed between its read and its insert.       *)
(***************************************************************************)
BidPersistedIffReadOpen ==
    [][\A b \in BidIds :
          /\ (bidReq[b].pc = "idle" /\ bidReq'[b].pc # "idle") =>
                /\ bidReq'[b].pc = "insert" <=> IsOpen(bidReq'[b].auctionId)
                /\ bids' = bids
          /\ ((\A r \in bids : r.Id # b) /\ (\E r \in bids' : r.Id = b)) =>
                /\ bidReq[b].pc = "insert"
                /\ ~bidReq[b].afterClose
                /\ \A r \in bids' : r.Id = b => r.AuctionId = bidReq[b].auctionId
          /\ (bidReq[b].pc = "insert" /\ bidReq'[b] # bidReq[b]) =>
                /\ \E r \in bids' : r.Id = b
                /\ bidReq'[b].result = "ok"
          /\ bidReq[b].pc = "done" => bidReq'[b] = bidReq[b]]_vars

\* The race window: the gate admitted a bid, then a close attempt closed
\* the auction, and the bid has yet to be inserted.
AdmittedThenClosed ==
    \E b \in BidIds :
        /\ bidReq[b].pc = "insert"
        /\ IsClosed(bidReq[b].auctionId)
        /\ Won(bidReq[b].auctionId) # {}

(***************************************************************************)
(* C19: both bid queries hand on what the bid repository answers.  On an   *)
(* error they return that error and no result.  Otherwise                  *)
(* FindBidByAuctionId returns one DTO for each bid entity, in the same     *)
(* order, with the entity's id, user, auction, amount and timestamp, and   *)
(* FindWinningBidByAuctionId the DTO of the one entity.  Neither changes   *)
(* an auction record or a bid record.                                      *)
(***************************************************************************)
FindIsPassThrough ==
    [][findOut' # findOut =>
          LET r == findReq.reply
              out == findOut'
              Same(dto, bid) ==
                  /\ dto.Id = bid.Id
                  /\ dto.UserId = bid.UserId
                  /\ dto.AuctionId = bid.AuctionId
                  /\ dto.Amount = bid.Amount
                  /\ dto.Timestamp = bid.Timestamp
          IN  /\ store' = store /\ bids' = bids /\ findReq' = findReq
              /\ out.err = r.err
              /\ findReq.fn = "FindBidByAuctionId" =>
                    IF r.err # "nil" THEN out.dtos = <<>>
                    ELSE /\ Len(out.dtos) = Len(r.bids)
                         /\ \A i \in 1..Len(r.bids) : Same(out.dtos[i], r.bids[i])
              /\ findReq.fn = "FindWinningBidByAuctionId" =>
                    IF r.err # "nil" THEN out.dto = NoDTO
                    ELSE Same(out.dto, r.bid)]_vars

\* A list of MaxFound bids, not all alike, was returned as DTOs.
FoundSeveralBids ==
    /\ findOut # Unset
    /\ findReq.fn = "FindBidByAuctionId"
    /\ findOut.err = "nil"
    /\ Len(findOut.dtos) = MaxFound
    /\ findOut.dtos[1] # findOut.dtos[2]

=============================================================================
